---- MODULE Spec2Model ----
(***************************************************************************)
(* Order Risk & Position Ledger of NTDT-v2: the PositionValidator ledger   *)
(* (positions table with its partial unique index), the FastRiskEngine     *)
(* pipeline and the /api/open_position and /api/close_position handlers.   *)
(*                                                                         *)
(* Units: prices are in cents, so contracts * entry_price * 100 (dollars)  *)
(* of the source is contracts * price here.  A session id of the source    *)
(* ("session_YYYYMMDD_HHMM") is an injective function of the wall-clock    *)
(* minute; it is modelled by the minute number itself.                     *)
(***************************************************************************)
EXTENDS Integers, Sequences, FiniteSets, TLC

(***************************************************************************)
(* Bounds of the model                                                     *)
(***************************************************************************)
MaxRows == 2      \* rows the positions table may hold
MaxDrift == 0     \* calls with an argument <= 0 start only while contracts are in -MaxDrift .. 5+MaxDrift
MaxClock == 1     \* minutes the wall clock may advance

Procs == {"p1", "p2"}

(***************************************************************************)
(* SessionLimits and MarketBounds (NTDT_FAST_RISK_ENGINE.py)               *)
(***************************************************************************)
max_new_positions == 6
max_total_executions == 50
max_contracts_per_position == 5
max_portfolio_exposure == 15000
max_position_exposure == 2500

min_strike == 10
max_strike == 600
min_price == 5
max_price == 1500

ticker_bounds ==
  [ TSLA  |-> [min_strike |-> 200,  max_strike |-> 400,  typical_price_range |-> <<100, 800>>],
    SPY   |-> [min_strike |-> 400,  max_strike |-> 600,  typical_price_range |-> <<50, 1200>>],
    QQQ   |-> [min_strike |-> 350,  max_strike |-> 500,  typical_price_range |-> <<80, 1000>>],
    AAPL  |-> [min_strike |-> 150,  max_strike |-> 250,  typical_price_range |-> <<120, 900>>],
    NVDA  |-> [min_strike |-> 80,   max_strike |-> 200,  typical_price_range |-> <<200, 1500>>],
    AMZN  |-> [min_strike |-> 140,  max_strike |-> 220,  typical_price_range |-> <<150, 850>>],
    MSFT  |-> [min_strike |-> 300,  max_strike |-> 450,  typical_price_range |-> <<100, 700>>],
    META  |-> [min_strike |-> 350,  max_strike |-> 550,  typical_price_range |-> <<250, 1200>>],
    GOOGL |-> [min_strike |-> 100,  max_strike |-> 180,  typical_price_range |-> <<180, 950>>],
    PLTR  |-> [min_strike |-> 15,   max_strike |-> 35,   typical_price_range |-> <<30, 400>>],
    HOOD  |-> [min_strike |-> 8,    max_strike |-> 25,   typical_price_range |-> <<20, 350>>],
    AMD   |-> [min_strike |-> 100,  max_strike |-> 200,  typical_price_range |-> <<150, 800>>],
    UBER  |-> [min_strike |-> 50,   max_strike |-> 85,   typical_price_range |-> <<80, 500>>],
    IWM   |-> [min_strike |-> 180,  max_strike |-> 250,  typical_price_range |-> <<100, 600>>],
    SPX   |-> [min_strike |-> 5200, max_strike |-> 6000, typical_price_range |-> <<500, 5000>>] ]

\* the literal 5 of PositionValidator ("max 5 per position")
ValidatorMaxContracts == 5

(***************************************************************************)
(* RiskResult and the six checks of FastRiskEngine                         *)
(***************************************************************************)
RiskResult(v, reason, level, warnings) ==
  [valid |-> v, reason |-> reason, risk_level |-> level, warnings |-> warnings]

\* _check_session_limits with both comparisons off by one (> for >=)
SessionLimitsOffByOne(current_positions, total_executions) ==
  IF current_positions > max_new_positions
    THEN RiskResult(FALSE, "Session limit reached", "CRITICAL", <<>>)
  ELSE IF total_executions > max_total_executions
    THEN RiskResult(FALSE, "Execution limit reached", "CRITICAL", <<>>)
  ELSE RiskResult(TRUE, "Session limits OK", "LOW", <<>>)

\* _check_session_limits, after its two SELECTs returned current_positions
\* and total_executions
_check_session_limits(current_positions, total_executions) ==
  IF current_positions >= max_new_positions
    THEN RiskResult(FALSE, "Session limit reached", "CRITICAL", <<>>)
  ELSE IF total_executions >= max_total_executions
    THEN RiskResult(FALSE, "Execution limit reached", "CRITICAL", <<>>)
  ELSE RiskResult(TRUE, "Session limits OK", "LOW",
         (IF 10 * current_positions >= 8 * max_new_positions
            THEN <<"Approaching position limit">> ELSE <<>>)
         \o (IF 10 * total_executions >= 8 * max_total_executions
            THEN <<"Approaching execution limit">> ELSE <<>>))

\* _check_position_exposure rejecting a position value equal to the cap
PositionExposureAtCapRejected(contracts, entry_price) ==
  IF contracts * entry_price >= max_position_exposure
    THEN RiskResult(FALSE, "Position too large", "CRITICAL", <<>>)
    ELSE RiskResult(TRUE, "Position size OK", "LOW", <<>>)

_check_position_exposure(contracts, entry_price) ==
  LET position_value == contracts * entry_price
  IN  IF position_value > max_position_exposure
        THEN RiskResult(FALSE, "Position too large", "CRITICAL", <<>>)
        ELSE RiskResult(TRUE, "Position size OK", "LOW",
               IF 10 * position_value > 8 * max_position_exposure
                 THEN <<"Large position">> ELSE <<>>)

\* _check_portfolio_exposure, after its SELECT returned current_exposure
_check_portfolio_exposure(current_exposure, contracts, entry_price) ==
  LET total_exposure == current_exposure + contracts * entry_price
  IN  IF total_exposure > max_portfolio_exposure
        THEN RiskResult(FALSE, "Portfolio limit exceeded", "CRITICAL", <<>>)
        ELSE RiskResult(TRUE, "Portfolio exposure OK", "LOW",
               IF 10 * total_exposure > 8 * max_portfolio_exposure
                 THEN <<"High portfolio exposure">> ELSE <<>>)

\* the strike range taken from the global bounds for every ticker
StrikeRangeGlobalOnly(ticker) == <<min_strike, max_strike>>

StrikeRange(ticker) ==
  IF ticker \in DOMAIN ticker_bounds
    THEN <<ticker_bounds[ticker].min_strike, ticker_bounds[ticker].max_strike>>
    ELSE <<min_strike, max_strike>>

_check_strike_bounds(ticker, strike) ==
  LET lo == StrikeRange(ticker)[1]
      hi == StrikeRange(ticker)[2]
  IN  IF strike < lo \/ strike > hi
        THEN RiskResult(FALSE, "Strike outside bounds", "HIGH", <<>>)
        ELSE RiskResult(TRUE, "Strike within bounds", "LOW",
               IF \/ 10 * strike < 10 * lo + 2 * (hi - lo)
                  \/ 10 * strike > 10 * hi - 2 * (hi - lo)
                 THEN <<"Strike near bounds">> ELSE <<>>)

PriceRange(ticker) ==
  IF ticker \in DOMAIN ticker_bounds
    THEN ticker_bounds[ticker].typical_price_range
    ELSE <<min_price, max_price>>

_check_price_bounds(ticker, price) ==
  LET lo == PriceRange(ticker)[1]
      hi == PriceRange(ticker)[2]
  IN  IF price < lo \/ price > hi
        THEN RiskResult(FALSE, "Price outside typical range", "MEDIUM", <<>>)
        ELSE RiskResult(TRUE, "Price within range", "LOW",
               IF \/ 10 * price < 10 * lo + 3 * (hi - lo)
                  \/ 10 * price > 10 * hi - 3 * (hi - lo)
                 THEN <<"Price outside typical range">> ELSE <<>>)

_check_contract_limits(contracts) ==
  IF contracts > max_contracts_per_position
    THEN RiskResult(FALSE, "Too many contracts", "HIGH", <<>>)
  ELSE IF contracts <= 0
    THEN RiskResult(FALSE, "Invalid contract quantity", "HIGH", <<>>)
  ELSE RiskResult(TRUE, "Contract quantity OK", "LOW", <<>>)

\* FastRiskEngine.validate_buy_to_open, first part: checks 1 and 2.  The
\* warnings of the session check are dropped (the source never extends the
\* list with session_check.warnings).
RiskFirstPart(current_positions, total_executions, contracts, entry_price) ==
  LET session_check == _check_session_limits(current_positions, total_executions)
      exposure_check == _check_position_exposure(contracts, entry_price)
  IN  IF ~session_check.valid THEN session_check
      ELSE IF ~exposure_check.valid THEN exposure_check
      ELSE RiskResult(TRUE, "", "LOW", exposure_check.warnings)

\* checks 3 to 6 with the price check run before the strike check
RiskSecondPartPriceFirst(warnings, current_exposure, ticker, strike, contracts, entry_price) ==
  LET portfolio_check == _check_portfolio_exposure(current_exposure, contracts, entry_price)
      strike_check == _check_strike_bounds(ticker, strike)
      price_check == _check_price_bounds(ticker, entry_price)
      quantity_check == _check_contract_limits(contracts)
  IN  IF ~portfolio_check.valid THEN portfolio_check
      ELSE IF ~price_check.valid THEN price_check
      ELSE IF ~strike_check.valid THEN strike_check
      ELSE IF ~quantity_check.valid THEN quantity_check
      ELSE RiskResult(TRUE, "All fast risk checks passed", "LOW",
             warnings \o portfolio_check.warnings \o price_check.warnings
                      \o strike_check.warnings \o quantity_check.warnings)

\* second part: checks 3 to 6, given the warnings collected so far
RiskSecondPart(warnings, current_exposure, ticker, strike, contracts, entry_price) ==
  LET portfolio_check == _check_portfolio_exposure(current_exposure, contracts, entry_price)
      strike_check == _check_strike_bounds(ticker, strike)
      price_check == _check_price_bounds(ticker, entry_price)
      quantity_check == _check_contract_limits(contracts)
  IN  IF ~portfolio_check.valid THEN portfolio_check
      ELSE IF ~strike_check.valid THEN strike_check
      ELSE IF ~price_check.valid THEN price_check
      ELSE IF ~quantity_check.valid THEN quantity_check
      ELSE RiskResult(TRUE, "All fast risk checks passed", "LOW",
             warnings \o portfolio_check.warnings \o strike_check.warnings
                      \o price_check.warnings \o quantity_check.warnings)

\* the whole pipeline on one ledger snapshot
validate_buy_to_open_risk(current_positions, total_executions, current_exposure, ticker, strike, contracts, entry_price) ==
  LET first == RiskFirstPart(current_positions, total_executions, contracts, entry_price)
  IN  IF ~first.valid THEN first
      ELSE RiskSecondPart(first.warnings, current_exposure, ticker, strike,
                          contracts, entry_price)


(***************************************************************************)
(* State                                                                   *)
(***************************************************************************)
VARIABLES
  positions,           \* rows of the positions table
  session_executions,  \* rows of the session_executions table, in insertion order
  now,                 \* the wall clock, in minutes
  proc                 \* the request each worker is handling and its position in it

vars == <<positions, session_executions, now, proc>>

\* get_current_session_id / FastRiskEngine.__init__: the session key of a minute
SessionOf(minute) == minute

\* the calendar day (the YYYYMMDD part) of a session key
DayOf(session_id) == session_id \div 1440

NoOrder ==
  [ticker |-> "", strike |-> 0, option_type |-> "", contracts |-> 0, entry_price |-> 0]

NoTarget == <<"", 0, 0>>

\* a worker between two requests; the result of its last request stays readable
Rest ==
  [pc |-> "done", op |-> "none", order |-> NoOrder, esid |-> -1, sid |-> -1,
   current_positions |-> -1, total_executions |-> -1, warnings |-> <<>>,
   current_contracts |-> -1, target |-> NoTarget, ins |-> "none",
   success |-> FALSE, reason |-> "", risk_level |-> "", order_action |-> "",
   seen |-> {}, table |-> {}]

(***************************************************************************)
(* The positions table                                                     *)
(***************************************************************************)
RowsOf(rows, ticker, session_id) ==
  {r \in rows : r.ticker = ticker /\ r.session_id = session_id}

OpenRowsOf(rows, ticker, session_id) ==
  {r \in RowsOf(rows, ticker, session_id) : r.status = "OPEN"}

OpenIn(rows, session_id) ==
  {r \in rows : r.session_id = session_id /\ r.status = "OPEN"}

\* SELECT ... WHERE ticker = ? AND session_id = ? AND status = 'OPEN'; fetchone()
HasOpen(ticker, session_id) == OpenRowsOf(positions, ticker, session_id) # {}

get_open_position(ticker, session_id) ==
  CHOOSE r \in OpenRowsOf(positions, ticker, session_id) : TRUE

\* a table without idx_ticker_session: every insert is accepted
NoUniqueIndex(rows, ticker, session_id) == TRUE

\* idx_ticker_session: UNIQUE (ticker, session_id) WHERE status = 'OPEN'
idx_ticker_session(rows, ticker, session_id) ==
  OpenRowsOf(rows, ticker, session_id) = {}

\* uuid4: an id no other row has
NewId(ticker, session_id) ==
  <<ticker, session_id, Cardinality(RowsOf(positions, ticker, session_id)) + 1>>

RECURSIVE SumExposure(_)
SumExposure(rows) ==
  IF rows = {} THEN 0
  ELSE LET r == CHOOSE x \in rows : TRUE
       IN  r.contracts * r.entry_price + SumExposure(rows \ {r})

\* SELECT COUNT(DISTINCT ticker) ... WHERE session_id = ? AND status = 'OPEN'
CountOpenTickers(session_id) ==
  Cardinality({r.ticker : r \in OpenIn(positions, session_id)})

\* SELECT COUNT(*) FROM session_executions WHERE session_id = ?
CountExecutions(session_id) ==
  Cardinality({i \in DOMAIN session_executions :
                 session_executions[i].session_id = session_id})

\* SELECT COALESCE(SUM(contracts * entry_price * 100), 0) ... status = 'OPEN'
OpenExposure(session_id) == SumExposure(OpenIn(positions, session_id))

(***************************************************************************)
(* PositionValidator: the validate_* functions on what get_open_position   *)
(* returned                                                                *)
(***************************************************************************)
ValidationResult(v, reason, current) ==
  [valid |-> v, reason |-> reason, current_contracts |-> current]

validate_buy_to_open(ticker, option_type, contracts, session_id) ==
  IF HasOpen(ticker, session_id)
    THEN ValidationResult(FALSE, "Already have open position this session",
                          get_open_position(ticker, session_id).contracts)
  ELSE IF contracts > ValidatorMaxContracts
    THEN ValidationResult(FALSE, "Cannot open - max 5 per position", 0)
  ELSE IF contracts < 1
    THEN ValidationResult(FALSE, "Must open at least 1 contract", 0)
  ELSE IF option_type \notin {"CALL", "PUT"}
    THEN ValidationResult(FALSE, "Invalid option type", 0)
  ELSE ValidationResult(TRUE, "BUY_TO_OPEN allowed", 0)

validate_add_contracts(ticker, additional_contracts, session_id) ==
  IF ~HasOpen(ticker, session_id)
    THEN ValidationResult(FALSE, "No open position to add contracts to", 0)
  ELSE LET existing == get_open_position(ticker, session_id)
       IN  IF existing.contracts + additional_contracts > ValidatorMaxContracts
             THEN ValidationResult(FALSE, "Would exceed 5-contract limit", existing.contracts)
             ELSE ValidationResult(TRUE, "Can add contracts", existing.contracts)

\* validate_sell_to_close without the comparison with the contracts held
SellWithoutHeldCheck(ticker, contracts_to_close, session_id) ==
  IF ~HasOpen(ticker, session_id)
    THEN ValidationResult(FALSE, "No open position to close", 0)
    ELSE ValidationResult(TRUE, "Can close contracts",
                          get_open_position(ticker, session_id).contracts)

validate_sell_to_close(ticker, contracts_to_close, session_id) ==
  IF ~HasOpen(ticker, session_id)
    THEN ValidationResult(FALSE, "No open position to close", 0)
  ELSE LET existing == get_open_position(ticker, session_id)
       IN  IF contracts_to_close > existing.contracts
             THEN ValidationResult(FALSE, "Cannot close - only fewer open", existing.contracts)
             ELSE ValidationResult(TRUE, "Can close contracts", existing.contracts)

\* the text of sqlite3.IntegrityError for a violated unique index on plain
\* columns: SQLite names the columns, not the index
IntegrityErrorText ==
  <<"UNIQUE constraint failed:", "positions.ticker,", "positions.session_id">>

\* open_position swallowing the IntegrityError and reporting success
ConflictReportedAsSuccess ==
  [success |-> TRUE, reason |-> "Position opened"]

\* open_position, except sqlite3.IntegrityError branch
OnIntegrityError ==
  IF \E i \in DOMAIN IntegrityErrorText : IntegrityErrorText[i] = "idx_ticker_session"
    THEN [success |-> FALSE, reason |-> "Already have open position this session"]
    ELSE [success |-> FALSE, reason |-> "Database error"]

(***************************************************************************)
(* Steps of a request.  Every SELECT, INSERT or UPDATE is one atomic       *)
(* statement on the shared database file; nothing groups two of them.      *)
(***************************************************************************)
\* the request returns; the worker keeps what it returned, and of an open
\* request the order and the sessions it was for
Finish(p, ok, reason, level) ==
  proc' = [proc EXCEPT ![p] =
             [Rest EXCEPT !.op = proc[p].op, !.success = ok, !.reason = reason,
                          !.risk_level = level, !.ins = proc[p].ins,
                          !.order = IF proc[p].op \in {"gate_open", "open", "validate"}
                                      THEN proc[p].order ELSE NoOrder,
                          !.sid = IF proc[p].op \in {"gate_open", "open"}
                                    THEN proc[p].sid ELSE -1,
                          !.esid = proc[p].esid,
                          !.warnings = IF ok THEN proc[p].warnings ELSE <<>>]]

Goto(p, label) == proc' = [proc EXCEPT ![p].pc = label]

\* open requests that may still insert a row
Inserting == {q \in Procs : proc[q].op \in {"gate_open", "open"}
                            /\ proc[q].pc \in {"risk_pos", "risk_exec", "risk_expo", "val", "write"}}

\* str.upper() on the spellings that occur as ticker or option_type
UpperCase ==
  [call |-> "CALL", Call |-> "CALL", put |-> "PUT", Put |-> "PUT",
   straddle |-> "STRADDLE", nvda |-> "NVDA",
   sell_to_close |-> "SELL_TO_CLOSE", Sell_To_Open |-> "SELL_TO_OPEN",
   buy_to_open |-> "BUY_TO_OPEN", hold |-> "HOLD"]
  @@ (" buy_to_close " :> " BUY_TO_CLOSE ")

upper(s) == IF s \in DOMAIN UpperCase THEN UpperCase[s] ELSE s

\* str.strip() on the spellings that occur as order_action
Stripped == (" BUY_TO_CLOSE " :> "BUY_TO_CLOSE") @@ (" buy_to_close " :> "buy_to_close")

strip(s) == IF s \in DOMAIN Stripped THEN Stripped[s] ELSE s

\* the order as the /api handlers parse it from the request
ParsedOrder(o) == [o EXCEPT !.ticker = upper(@), !.option_type = upper(@)]

\* /api/open_position: parse the order, FastRiskEngine(DB_PATH), PositionValidator(DB_PATH)
GateBegin(p, o, cap) ==
  /\ proc[p].pc = "done"
  /\ Cardinality(positions) + Cardinality(Inserting) < cap
  /\ proc' = [proc EXCEPT ![p] = [Rest EXCEPT !.pc = "risk_pos", !.op = "gate_open",
                                              !.order = ParsedOrder(o), !.esid = SessionOf(now)]]
  /\ UNCHANGED <<positions, session_executions, now>>

\* /api/validate_position with action OPEN: the risk pipeline, then
\* PositionValidator.validate_buy_to_open, and no write
ValidateBegin(p, o) ==
  /\ proc[p].pc = "done"
  /\ proc' = [proc EXCEPT ![p] = [Rest EXCEPT !.pc = "risk_pos", !.op = "validate",
                                              !.order = ParsedOrder(o), !.esid = SessionOf(now)]]
  /\ UNCHANGED <<positions, session_executions, now>>

\* _check_session_limits, first SELECT
RiskReadPositions ==
  \E p \in Procs :
    /\ proc[p].pc = "risk_pos"
    /\ proc' = [proc EXCEPT ![p].pc = "risk_exec",
                            ![p].current_positions = CountOpenTickers(proc[p].esid)]
    /\ UNCHANGED <<positions, session_executions, now>>

\* the handler going on to the portfolio check whatever checks 1 and 2 said
RiskVerdictIgnored ==
  \E p \in Procs :
    /\ proc[p].pc = "risk_exec"
    /\ proc' = [proc EXCEPT ![p].pc = "risk_expo",
                            ![p].total_executions = CountExecutions(proc[p].esid)]
    /\ UNCHANGED <<positions, session_executions, now>>

\* _check_session_limits, second SELECT and verdict; _check_position_exposure
RiskReadExecutions ==
  \E p \in Procs :
    /\ proc[p].pc = "risk_exec"
    /\ LET total == CountExecutions(proc[p].esid)
           first == RiskFirstPart(proc[p].current_positions, total,
                                  proc[p].order.contracts, proc[p].order.entry_price)
       IN  IF first.valid
             THEN proc' = [proc EXCEPT ![p].pc = "risk_expo",
                                       ![p].total_executions = total,
                                       ![p].warnings = first.warnings]
             ELSE Finish(p, FALSE, first.reason, first.risk_level)
    /\ UNCHANGED <<positions, session_executions, now>>

\* _check_portfolio_exposure and checks 4 to 6; on success the handler enters
\* PositionValidator.open_position, which reads the clock for its session id
RiskReadExposure ==
  \E p \in Procs :
    /\ proc[p].pc = "risk_expo"
    /\ LET o == proc[p].order
           second == RiskSecondPart(proc[p].warnings, OpenExposure(proc[p].esid),
                                    o.ticker, o.strike, o.contracts, o.entry_price)
       IN  IF second.valid
             THEN proc' = [proc EXCEPT ![p].pc = "val", ![p].sid = SessionOf(now),
                                       ![p].warnings = second.warnings,
                                       ![p].risk_level = second.risk_level]
             ELSE Finish(p, FALSE, second.reason, second.risk_level)
    /\ UNCHANGED <<positions, session_executions, now>>

\* PositionValidator.open_position called directly
OpenBegin(p, o, cap) ==
  /\ proc[p].pc = "done"
  /\ Cardinality(positions) + Cardinality(Inserting) < cap
  /\ proc' = [proc EXCEPT ![p] = [Rest EXCEPT !.pc = "val", !.op = "open",
                                              !.order = o, !.sid = SessionOf(now)]]
  /\ UNCHANGED <<positions, session_executions, now>>

\* validate_buy_to_open reserving the position it has just allowed
ValidateOpenReserving ==
  \E p \in Procs :
    /\ proc[p].pc = "val"
    /\ proc[p].op \in {"gate_open", "open", "validate"}
    /\ LET o == proc[p].order
           v == validate_buy_to_open(o.ticker, o.option_type, o.contracts, proc[p].sid)
       IN  IF ~v.valid
             THEN Finish(p, FALSE, v.reason, "") /\ UNCHANGED positions
             ELSE /\ positions' = positions \cup
                       {[id |-> NewId(o.ticker, proc[p].sid), ticker |-> o.ticker,
                         strike |-> o.strike, option_type |-> o.option_type,
                         contracts |-> o.contracts, entry_price |-> o.entry_price,
                         session_id |-> proc[p].sid, status |-> "OPEN"]}
                  /\ IF proc[p].op = "validate"
                       THEN Finish(p, TRUE, v.reason, proc[p].risk_level)
                       ELSE Goto(p, "write")
    /\ UNCHANGED <<session_executions, now>>

\* open_position (or /api/validate_position): validate_buy_to_open
ValidateOpen ==
  \E p \in Procs :
    /\ proc[p].pc = "val"
    /\ proc[p].op \in {"gate_open", "open", "validate"}
    /\ LET o == proc[p].order
           v == validate_buy_to_open(o.ticker, o.option_type, o.contracts, proc[p].sid)
       IN  IF ~v.valid THEN Finish(p, FALSE, v.reason, "")
           ELSE IF proc[p].op = "validate" THEN Finish(p, TRUE, v.reason, proc[p].risk_level)
           ELSE Goto(p, "write")
    /\ UNCHANGED <<positions, session_executions, now>>

\* the gate recording an execution also for an insert the index refused
InsertThenRecordAlways ==
  \E p \in Procs :
    /\ proc[p].pc = "write"
    /\ proc[p].op \in {"gate_open", "open"}
    /\ LET o == proc[p].order
           id == NewId(o.ticker, proc[p].sid)
       IN  IF idx_ticker_session(positions, o.ticker, proc[p].sid)
             THEN /\ positions' = positions \cup
                       {[id |-> id, ticker |-> o.ticker, strike |-> o.strike,
                         option_type |-> o.option_type, contracts |-> o.contracts,
                         entry_price |-> o.entry_price, session_id |-> proc[p].sid,
                         status |-> "OPEN"]}
                  /\ proc' = [proc EXCEPT ![p].pc = "rec", ![p].ins = "ok"]
             ELSE /\ proc' = [proc EXCEPT ![p].pc = "rec", ![p].ins = "conflict"]
                  /\ UNCHANGED positions
    /\ UNCHANGED <<session_executions, now>>

\* open_position: INSERT INTO positions
InsertPosition ==
  \E p \in Procs :
    /\ proc[p].pc = "write"
    /\ proc[p].op \in {"gate_open", "open"}
    /\ LET o == proc[p].order
           id == NewId(o.ticker, proc[p].sid)
       IN  IF idx_ticker_session(positions, o.ticker, proc[p].sid)
             THEN /\ positions' = positions \cup
                       {[id |-> id, ticker |-> o.ticker, strike |-> o.strike,
                         option_type |-> o.option_type, contracts |-> o.contracts,
                         entry_price |-> o.entry_price, session_id |-> proc[p].sid,
                         status |-> "OPEN"]}
                  /\ IF proc[p].op = "gate_open"
                       THEN proc' = [proc EXCEPT ![p].pc = "rec", ![p].ins = "ok"]
                       ELSE proc' = [proc EXCEPT ![p].pc = "done", ![p].ins = "ok",
                                                 ![p].success = TRUE,
                                                 ![p].reason = "Position opened"]
             ELSE /\ proc' = [proc EXCEPT ![p].pc = "done", ![p].ins = "conflict",
                                          ![p].success = OnIntegrityError.success,
                                          ![p].reason = OnIntegrityError.reason,
                                          ![p].warnings = <<>>]
                  /\ UNCHANGED positions
    /\ UNCHANGED <<session_executions, now>>

\* record_execution keeping one row, the latest execution, in the table
RecordExecutionKeepsLatest ==
  \E p \in Procs :
    /\ proc[p].pc = "rec"
    /\ session_executions' =
          << [session_id |-> proc[p].esid, execution_type |-> "OPEN",
              ticker |-> proc[p].order.ticker, contracts |-> proc[p].order.contracts] >>
    /\ proc' = [proc EXCEPT ![p].pc = "done", ![p].success = TRUE,
                            ![p].reason = "Position opened"]
    /\ UNCHANGED <<positions, now>>

\* /api/open_position: risk_engine.record_execution("OPEN", ticker, contracts)
RecordExecution ==
  \E p \in Procs :
    /\ proc[p].pc = "rec"
    /\ session_executions' = Append(session_executions,
          [session_id |-> proc[p].esid, execution_type |-> "OPEN",
           ticker |-> proc[p].order.ticker, contracts |-> proc[p].order.contracts])
    /\ proc' = [proc EXCEPT ![p].pc = "done", ![p].success = TRUE,
                            ![p].reason = "Position opened"]
    /\ UNCHANGED <<positions, now>>

\* validate_order routing on the side of the order only: every ..._TO_CLOSE
\* goes to validate_sell_to_close, every ..._TO_OPEN to validate_buy_to_open
ValidateOrderBySideOnly(order_action, ticker, strike, option_type, contracts, session_id) ==
  LET action == strip(upper(order_action))
  IN  IF action \in {"BUY_TO_OPEN", "SELL_TO_OPEN"}
        THEN validate_buy_to_open(ticker, option_type, contracts, session_id)
      ELSE validate_sell_to_close(ticker, contracts, session_id)

\* PositionValidator.validate_order; an argument left at None is 0 or "" here
\* (None, 0 and "" are all falsy)
validate_order(order_action, ticker, strike, option_type, contracts, session_id) ==
  LET action == strip(upper(order_action))
  IN  IF action = "BUY_TO_CLOSE"
        THEN ValidationResult(FALSE, "BUY_TO_CLOSE not allowed", 0)
      ELSE IF action = "SELL_TO_OPEN"
        THEN ValidationResult(FALSE, "SELL_TO_OPEN not allowed", 0)
      ELSE IF action = "BUY_TO_OPEN"
        THEN IF strike = 0 \/ option_type = "" \/ contracts = 0
               THEN ValidationResult(FALSE, "BUY_TO_OPEN requires", 0)
               ELSE validate_buy_to_open(ticker, option_type, contracts, session_id)
      ELSE IF action = "SELL_TO_CLOSE"
        THEN IF contracts = 0
               THEN ValidationResult(FALSE, "SELL_TO_CLOSE requires", 0)
               ELSE validate_sell_to_close(ticker, contracts, session_id)
      ELSE ValidationResult(FALSE, "Unknown order action", 0)

\* PositionValidator.validate_order(order_action, ticker, strike, option_type, contracts)
OrderBegin(p, order_action, o) ==
  /\ proc[p].pc = "done"
  /\ proc' = [proc EXCEPT ![p] = [Rest EXCEPT !.pc = "val", !.op = "order", !.order = o,
                                              !.order_action = order_action,
                                              !.sid = SessionOf(now)]]
  /\ UNCHANGED <<positions, session_executions, now>>

\* validate_order: the routing and the validate_* function it calls
ValidateOrder ==
  \E p \in Procs :
    /\ proc[p].pc = "val"
    /\ proc[p].op = "order"
    /\ LET o == proc[p].order
           v == validate_order(proc[p].order_action, o.ticker, o.strike, o.option_type,
                               o.contracts, proc[p].sid)
       IN  Finish(p, v.valid, v.reason, "")
    /\ UNCHANGED <<positions, session_executions, now>>

\* calls with a non-positive argument can move contracts without limit: they
\* start only while every row is within MaxDrift of the legal range
WithinDrift ==
  \A r \in positions : r.contracts \in (0 - MaxDrift) .. (ValidatorMaxContracts + MaxDrift)

\* PositionValidator.add_contracts(ticker, n)
AddBegin(p, ticker, n) ==
  /\ proc[p].pc = "done"
  /\ n <= 0 => WithinDrift
  /\ proc' = [proc EXCEPT ![p] = [Rest EXCEPT !.pc = "val", !.op = "add",
                                              !.order = [NoOrder EXCEPT !.ticker = ticker,
                                                                        !.contracts = n],
                                              !.sid = SessionOf(now)]]
  /\ UNCHANGED <<positions, session_executions, now>>

\* add_contracts: validate_add_contracts
ValidateAdd ==
  \E p \in Procs :
    /\ proc[p].pc = "val"
    /\ proc[p].op = "add"
    /\ LET v == validate_add_contracts(proc[p].order.ticker, proc[p].order.contracts,
                                       proc[p].sid)
       IN  IF v.valid
             THEN proc' = [proc EXCEPT ![p].pc = "write",
                                       ![p].current_contracts = v.current_contracts,
                                       ![p].target = get_open_position(proc[p].order.ticker,
                                                                       proc[p].sid).id]
             ELSE Finish(p, FALSE, v.reason, "")
    /\ UNCHANGED <<positions, session_executions, now>>

\* the UPDATE of add_contracts without status = 'OPEN' in its WHERE clause
UpdateAddAnyStatus ==
  \E p \in Procs :
    /\ proc[p].pc = "write"
    /\ proc[p].op = "add"
    /\ LET hit == RowsOf(positions, proc[p].order.ticker, proc[p].sid)
           n == proc[p].order.contracts
       IN  positions' = (positions \ hit)
                          \cup {[r EXCEPT !.contracts = @ + n] : r \in hit}
    /\ Finish(p, TRUE, "Added contracts", "")
    /\ UNCHANGED <<session_executions, now>>

\* add_contracts: UPDATE positions SET contracts = contracts + ? WHERE ... status = 'OPEN'
UpdateAdd ==
  \E p \in Procs :
    /\ proc[p].pc = "write"
    /\ proc[p].op = "add"
    /\ LET hit == OpenRowsOf(positions, proc[p].order.ticker, proc[p].sid)
           n == proc[p].order.contracts
       IN  positions' = (positions \ hit)
                          \cup {[r EXCEPT !.contracts = @ + n] : r \in hit}
    /\ Finish(p, TRUE, "Added contracts", "")
    /\ UNCHANGED <<session_executions, now>>

\* PositionValidator.close_contracts(ticker, n), as /api/close_position calls it
CloseBegin(p, ticker, n) ==
  /\ proc[p].pc = "done"
  /\ n <= 0 => WithinDrift
  /\ proc' = [proc EXCEPT ![p] = [Rest EXCEPT !.pc = "val", !.op = "close",
                                              !.order = [NoOrder EXCEPT !.ticker = ticker,
                                                                        !.contracts = n],
                                              !.sid = SessionOf(now)]]
  /\ UNCHANGED <<positions, session_executions, now>>

\* close_contracts going on to its UPDATE without looking the position up
ValidateCloseNoLookup ==
  \E p \in Procs :
    /\ proc[p].pc = "val"
    /\ proc[p].op = "close"
    /\ proc' = [proc EXCEPT ![p].pc = "write", ![p].current_contracts = 0]
    /\ UNCHANGED <<positions, session_executions, now>>

\* close_contracts run behind the session-limits check of the risk engine
ValidateCloseBehindRiskGate ==
  \E p \in Procs :
    /\ proc[p].pc = "val"
    /\ proc[p].op = "close"
    /\ LET v == validate_sell_to_close(proc[p].order.ticker, proc[p].order.contracts,
                                       proc[p].sid)
           g == _check_session_limits(CountOpenTickers(proc[p].sid),
                                      CountExecutions(proc[p].sid))
       IN  IF ~g.valid THEN Finish(p, FALSE, g.reason, g.risk_level)
           ELSE IF v.valid
             THEN proc' = [proc EXCEPT ![p].pc = "write",
                                       ![p].current_contracts = v.current_contracts,
                                       ![p].target = get_open_position(proc[p].order.ticker,
                                                                       proc[p].sid).id]
             ELSE Finish(p, FALSE, v.reason, "")
    /\ UNCHANGED <<positions, session_executions, now>>

\* close_contracts: validate_sell_to_close
ValidateClose ==
  \E p \in Procs :
    /\ proc[p].pc = "val"
    /\ proc[p].op = "close"
    /\ LET v == validate_sell_to_close(proc[p].order.ticker, proc[p].order.contracts,
                                       proc[p].sid)
       IN  IF v.valid
             THEN proc' = [proc EXCEPT ![p].pc = "write",
                                       ![p].current_contracts = v.current_contracts,
                                       ![p].target = get_open_position(proc[p].order.ticker,
                                                                       proc[p].sid).id]
             ELSE Finish(p, FALSE, v.reason, "")
    /\ UNCHANGED <<positions, session_executions, now>>

\* /api/close_position with close_all
CloseAllBegin(p, ticker) ==
  /\ proc[p].pc = "done"
  /\ proc' = [proc EXCEPT ![p] = [Rest EXCEPT !.pc = "look", !.op = "close_all",
                                              !.order = [NoOrder EXCEPT !.ticker = ticker],
                                              !.sid = SessionOf(now)]]
  /\ UNCHANGED <<positions, session_executions, now>>

\* close_position: get_open_position, whose fetchone() returns any row the
\* SELECT matches; contracts = existing.contracts; close_contracts then reads
\* the clock for its own session id.  seen and table keep what the call
\* returned and the table it read.
FirstLookup ==
  \E p \in Procs :
    /\ proc[p].pc = "look"
    /\ proc[p].op = "close_all"
    /\ LET found == OpenRowsOf(positions, proc[p].order.ticker, proc[p].sid)
       IN  IF found = {}
             THEN Finish(p, FALSE, "No open position to close", "")
             ELSE \E r \in found :
                    proc' = [proc EXCEPT ![p].pc = "look2", ![p].order.contracts = r.contracts,
                                         ![p].seen = {r}, ![p].table = positions,
                                         ![p].sid = SessionOf(now)]
    /\ UNCHANGED <<positions, session_executions, now>>

\* close_contracts as close_all calls it: validate_sell_to_close with its own
\* get_open_position
SecondLookup ==
  \E p \in Procs :
    /\ proc[p].pc = "look2"
    /\ proc[p].op = "close_all"
    /\ LET found == OpenRowsOf(positions, proc[p].order.ticker, proc[p].sid)
       IN  IF found = {}
             THEN Finish(p, FALSE, "No open position to close", "")
             ELSE \E r \in found :
                    IF proc[p].order.contracts > r.contracts
                      THEN Finish(p, FALSE, "Cannot close - only fewer open", "")
                      ELSE proc' = [proc EXCEPT ![p].pc = "write", ![p].op = "close",
                                                ![p].current_contracts = r.contracts,
                                                ![p].target = r.id, ![p].table = {}]
    /\ UNCHANGED <<positions, session_executions, now>>

\* the partial-close UPDATE used whatever remains
AlwaysPartialClose(row, contracts_to_close, remaining) ==
  [row EXCEPT !.contracts = @ - contracts_to_close]

\* a full close that also clears the entry price of the row
ClosedRowPriceReset(row, contracts_to_close, remaining) ==
  IF remaining = 0
    THEN [row EXCEPT !.status = "CLOSED", !.contracts = 0, !.entry_price = 0]
    ELSE [row EXCEPT !.contracts = @ - contracts_to_close]

\* close_contracts: the row an UPDATE leaves, by remaining = current_contracts - n
ClosedRow(row, contracts_to_close, remaining) ==
  IF remaining = 0
    THEN [row EXCEPT !.status = "CLOSED", !.contracts = 0]
    ELSE [row EXCEPT !.contracts = @ - contracts_to_close]

\* an UPDATE that waits until a row matches its WHERE clause
UpdateCloseWaitsForRow ==
  \E p \in Procs :
    /\ proc[p].pc = "write"
    /\ proc[p].op = "close"
    /\ OpenRowsOf(positions, proc[p].order.ticker, proc[p].sid) # {}
    /\ LET hit == OpenRowsOf(positions, proc[p].order.ticker, proc[p].sid)
           n == proc[p].order.contracts
           remaining == proc[p].current_contracts - n
       IN  positions' = (positions \ hit) \cup {ClosedRow(r, n, remaining) : r \in hit}
    /\ Finish(p, TRUE, "Closed contracts", "")
    /\ UNCHANGED <<session_executions, now>>

\* a full close that deletes the row instead of marking it CLOSED
UpdateCloseDeletesRow ==
  \E p \in Procs :
    /\ proc[p].pc = "write"
    /\ proc[p].op = "close"
    /\ LET hit == OpenRowsOf(positions, proc[p].order.ticker, proc[p].sid)
           n == proc[p].order.contracts
           remaining == proc[p].current_contracts - n
       IN  positions' = IF remaining = 0 THEN positions \ hit
                        ELSE (positions \ hit) \cup {ClosedRow(r, n, remaining) : r \in hit}
    /\ Finish(p, TRUE, "Closed contracts", "")
    /\ UNCHANGED <<session_executions, now>>

\* close_contracts: UPDATE positions ... WHERE ticker = ? AND session_id = ? AND status = 'OPEN'
UpdateClose ==
  \E p \in Procs :
    /\ proc[p].pc = "write"
    /\ proc[p].op = "close"
    /\ LET hit == OpenRowsOf(positions, proc[p].order.ticker, proc[p].sid)
           n == proc[p].order.contracts
           remaining == proc[p].current_contracts - n
       IN  positions' = (positions \ hit) \cup {ClosedRow(r, n, remaining) : r \in hit}
    /\ Finish(p, TRUE, "Closed contracts", "")
    /\ UNCHANGED <<session_executions, now>>

\* a minute passes
Tick ==
  /\ now < MaxClock
  /\ now' = now + 1
  /\ UNCHANGED <<positions, session_executions, proc>>

(***************************************************************************)
(* The order gate with add_contracts and close_contracts, on two tickers   *)
(***************************************************************************)
Init ==
  /\ positions = {}
  /\ session_executions = <<>>
  /\ now = 0
  /\ proc = [p \in Procs |-> Rest]

Order(ticker, strike, option_type, contracts, entry_price) ==
  [ticker |-> ticker, strike |-> strike, option_type |-> option_type,
   contracts |-> contracts, entry_price |-> entry_price]

GateOrders ==
  { Order("NVDA", 100, "CALL", 2, 1200),
    Order("NVDA", 100, "CALL", 2, 1500),
    Order("SPX", 5500, "PUT", 1, 2500) }

GateTickers == {o.ticker : o \in GateOrders}

AddArgs == {3}

CloseArgs == {1, 2}

GateOpen == \E p \in Procs, o \in GateOrders : GateBegin(p, o, MaxRows)

AddContracts == \E p \in Procs, t \in GateTickers, n \in AddArgs : AddBegin(p, t, n)

CloseContracts == \E p \in Procs, t \in GateTickers, n \in CloseArgs : CloseBegin(p, t, n)

Next ==
  \/ GateOpen
  \/ RiskReadPositions
  \/ RiskReadExecutions
  \/ RiskReadExposure
  \/ ValidateOpen
  \/ InsertPosition
  \/ RecordExecution
  \/ AddContracts
  \/ ValidateAdd
  \/ UpdateAdd
  \/ CloseContracts
  \/ ValidateClose
  \/ UpdateClose

Spec == Init /\ [][Next]_vars

(***************************************************************************)
(* The order gate with close_contracts only                                *)
(***************************************************************************)
NextClose ==
  \/ GateOpen
  \/ RiskReadPositions
  \/ RiskReadExecutions
  \/ RiskReadExposure
  \/ ValidateOpen
  \/ InsertPosition
  \/ RecordExecution
  \/ CloseContracts
  \/ ValidateClose
  \/ UpdateClose

SpecClose == Init /\ [][NextClose]_vars

\* a request that has started keeps running: each statement of the handler
\* of worker p is executed once control has reached it
Advance(p) ==
  /\ proc[p].pc # "done"
  /\ \/ RiskReadPositions
     \/ RiskReadExecutions
     \/ RiskReadExposure
     \/ ValidateOpen
     \/ InsertPosition
     \/ RecordExecution
     \/ ValidateClose
     \/ UpdateClose
  /\ proc'[p] # proc[p]

SpecCloseLive == SpecClose /\ \A p \in Procs : WF_vars(Advance(p))

(***************************************************************************)
(* PositionValidator called directly, with any integer arguments           *)
(***************************************************************************)
LedgerOrders ==
  { Order("NVDA", 100, "CALL", 5, 250),
    Order("NVDA", 100, "PUT", 1, 0),
    Order("NVDA", 100, "CALL", 6, 250) }

LedgerTickers == {o.ticker : o \in LedgerOrders}

LedgerAddArgs == {-1, 2}

LedgerCloseArgs == {-1, 0, 1, 5}

LedgerOpen == \E p \in Procs, o \in LedgerOrders : OpenBegin(p, o, MaxRows)

LedgerAdd == \E p \in Procs, t \in LedgerTickers, n \in LedgerAddArgs : AddBegin(p, t, n)

LedgerClose == \E p \in Procs, t \in LedgerTickers, n \in LedgerCloseArgs : CloseBegin(p, t, n)

NextLedger ==
  \/ LedgerOpen
  \/ ValidateOpen
  \/ InsertPosition
  \/ LedgerAdd
  \/ ValidateAdd
  \/ UpdateAdd
  \/ LedgerClose
  \/ ValidateClose
  \/ UpdateClose

SpecLedger == Init /\ [][NextLedger]_vars

(***************************************************************************)
(* PositionValidator opening and closing one ticker while the clock runs   *)
(***************************************************************************)
SessionOrders == { Order("NVDA", 100, "CALL", 5, 250) }

SessionCloseArgs == {1, 5}

SessionOpen == \E p \in Procs, o \in SessionOrders : OpenBegin(p, o, MaxRows)

SessionClose ==
  \E p \in Procs, o \in SessionOrders, n \in SessionCloseArgs : CloseBegin(p, o.ticker, n)

NextSession ==
  \/ SessionOpen
  \/ ValidateOpen
  \/ InsertPosition
  \/ SessionClose
  \/ ValidateClose
  \/ UpdateClose
  \/ Tick

SpecSession == Init /\ [][NextSession]_vars

(***************************************************************************)
(* Round trips on the ledger within one session: each worker opens a       *)
(* position of k contracts for its own ticker, which has no open position, *)
(* and then closes k or k - 1 contracts of it                              *)
(***************************************************************************)
RoundTicker == [p \in Procs |-> IF p = "p1" THEN "TSLA" ELSE "NVDA"]

RoundOpen ==
  \E p \in Procs, k \in 1 .. ValidatorMaxContracts :
    /\ ~HasOpen(RoundTicker[p], SessionOf(now))
    /\ OpenBegin(p, Order(RoundTicker[p], 340, "CALL", k, 250), MaxRows)

RoundClose ==
  \E p \in Procs :
    /\ proc[p].op = "open" /\ proc[p].pc = "done" /\ proc[p].success
    /\ \E n \in {proc[p].order.contracts, proc[p].order.contracts - 1} :
         CloseBegin(p, proc[p].order.ticker, n)

NextRound ==
  \/ RoundOpen
  \/ ValidateOpen
  \/ InsertPosition
  \/ RoundClose
  \/ ValidateClose
  \/ UpdateClose

SpecRound == Init /\ [][NextRound]_vars

(***************************************************************************)
(* BUY_TO_OPEN requests for distinct tickers through the gate.  The        *)
(* tickers are asked for in a fixed order: a ticker is requested only when *)
(* every ticker before it has a row or a request under way.                *)
(***************************************************************************)
LimitOrders ==
  << Order("TSLA", 340, "CALL", 1, 250),
     Order("SPY", 500, "CALL", 1, 250),
     Order("QQQ", 400, "CALL", 1, 250),
     Order("AAPL", 200, "CALL", 1, 250),
     Order("NVDA", 100, "CALL", 1, 250),
     Order("AMZN", 180, "CALL", 1, 250),
     Order("MSFT", 400, "CALL", 1, 250) >>

TickersNamed ==
  {r.ticker : r \in positions} \cup {proc[q].order.ticker : q \in {x \in Procs : proc[x].pc # "done"}}

LimitOpen ==
  \E p \in Procs, i \in DOMAIN LimitOrders :
    /\ LimitOrders[i].ticker \notin TickersNamed
    /\ \A j \in 1 .. (i - 1) : LimitOrders[j].ticker \in TickersNamed
    /\ GateBegin(p, LimitOrders[i], Len(LimitOrders) + 1)

NextLimit ==
  \/ LimitOpen
  \/ RiskReadPositions
  \/ RiskReadExecutions
  \/ RiskReadExposure
  \/ ValidateOpen
  \/ InsertPosition
  \/ RecordExecution

SpecLimit == Init /\ [][NextLimit]_vars

(***************************************************************************)
(* The risk pipeline as a function of the ledger: /api/validate_position   *)
(* on ledgers holding the first n positions of LimitOrders and m recorded  *)
(* executions                                                              *)
(***************************************************************************)
RiskOrders ==
  { Order("TSLA", 340, "CALL", 5, 250),
    Order("TSLA", 340, "CALL", 5, 2500),
    Order("TSLA", 500, "CALL", 5, 250),
    Order("TSLA", 340, "CALL", 10, 250),
    Order("UNKNOWN", 100, "CALL", 5, 500),
    Order("TSLA", 340, "CALL", 0, 250),
    Order("TSLA", 500, "CALL", 10, 50) }

OpenCounts == 0 .. Len(LimitOrders)

ExecutionCounts ==
  {0, (8 * max_total_executions) \div 10 - 1, (8 * max_total_executions) \div 10,
   max_total_executions - 1, max_total_executions, max_total_executions + 1}

RowOf(o, session_id) ==
  [id |-> <<o.ticker, session_id, 1>>, ticker |-> o.ticker, strike |-> o.strike,
   option_type |-> o.option_type, contracts |-> o.contracts,
   entry_price |-> o.entry_price, session_id |-> session_id, status |-> "OPEN"]

InitRisk ==
  /\ now = 0
  /\ \E n \in OpenCounts :
       positions = {RowOf(LimitOrders[i], SessionOf(0)) : i \in 1 .. n}
  /\ \E m \in ExecutionCounts :
       session_executions =
         [i \in 1 .. m |-> [session_id |-> SessionOf(0), execution_type |-> "OPEN",
                            ticker |-> "TSLA", contracts |-> 1]]
  /\ proc = [p \in Procs |-> Rest]

ValidatePosition == \E p \in Procs, o \in RiskOrders : ValidateBegin(p, o)

NextRisk ==
  \/ ValidatePosition
  \/ RiskReadPositions
  \/ RiskReadExecutions
  \/ RiskReadExposure
  \/ ValidateOpen

SpecRisk == InitRisk /\ [][NextRisk]_vars

(***************************************************************************)
(* close_contracts on loaded ledgers: the first n positions of LimitOrders *)
(* at 5 contracts and 5.00 each, and m recorded executions                 *)
(***************************************************************************)
InitLoaded ==
  /\ now = 0
  /\ \E n \in OpenCounts :
       positions = {[RowOf(LimitOrders[i], SessionOf(0))
                       EXCEPT !.contracts = ValidatorMaxContracts, !.entry_price = 500] :
                    i \in 1 .. n}
  /\ \E m \in ExecutionCounts :
       session_executions =
         [i \in 1 .. m |-> [session_id |-> SessionOf(0), execution_type |-> "OPEN",
                            ticker |-> "TSLA", contracts |-> 1]]
  /\ proc = [p \in Procs |-> Rest]

LoadedCloseArgs == {2, 5}

LoadedClose ==
  \E p \in Procs, i \in {1, 2}, n \in LoadedCloseArgs : CloseBegin(p, LimitOrders[i].ticker, n)

NextLoaded ==
  \/ LoadedClose
  \/ ValidateClose
  \/ UpdateClose

SpecLoaded == InitLoaded /\ [][NextLoaded]_vars

(***************************************************************************)
(* PositionValidator.open_position called with option types in several     *)
(* spellings                                                               *)
(***************************************************************************)
OptionTypes == {"CALL", "call", "Put", "STRADDLE"}

CaseOrders == {Order(t, 100, ot, 1, 250) : t \in {"NVDA", "AMD"}, ot \in OptionTypes}

CaseOpen == \E p \in Procs, o \in CaseOrders : OpenBegin(p, o, MaxRows)

NextCase ==
  \/ CaseOpen
  \/ ValidateOpen
  \/ InsertPosition

SpecCase == Init /\ [][NextCase]_vars

(***************************************************************************)
(* validate_order with actions in several spellings, while one ticker is   *)
(* opened and closed                                                       *)
(***************************************************************************)
OrderActions ==
  {"BUY_TO_CLOSE", " buy_to_close ", "Sell_To_Open", "buy_to_open", "sell_to_close",
   "hold", ""}

OrderArgs ==
  { Order("NVDA", 100, "CALL", 5, 0),
    Order("NVDA", 0, "", 5, 0),
    Order("NVDA", 100, "CALL", 0, 0) }

OrderRequest == \E p \in Procs, a \in OrderActions, o \in OrderArgs : OrderBegin(p, a, o)

NextOrder ==
  \/ OrderRequest
  \/ ValidateOrder
  \/ SessionOpen
  \/ ValidateOpen
  \/ InsertPosition
  \/ SessionClose
  \/ ValidateClose
  \/ UpdateClose

SpecOrder == Init /\ [][NextOrder]_vars

(***************************************************************************)
(* /api/validate_position on an empty ledger for listed and unlisted       *)
(* tickers, with strikes and prices at and around the bounds               *)
(***************************************************************************)
BoundsOrders ==
  {Order("UNKNOWN", k, "CALL", 1, 500) : k \in {min_strike - 1, min_strike, max_strike, max_strike + 1}}
  \cup {Order("UNKNOWN", 100, "CALL", 1, x) : x \in {min_price - 1, min_price, max_price, max_price + 1}}
  \cup { Order("TSLA", 500, "CALL", 1, 250),
         Order("TSLA", 340, "CALL", 1, 900),
         Order("TSLA", 340, "CALL", 1, 250),
         Order("HOOD", 9, "CALL", 1, 100) }

BoundsRequest == \E p \in Procs, o \in BoundsOrders : ValidateBegin(p, o)

NextBounds ==
  \/ BoundsRequest
  \/ RiskReadPositions
  \/ RiskReadExecutions
  \/ RiskReadExposure
  \/ ValidateOpen

SpecBounds == Init /\ [][NextBounds]_vars

(***************************************************************************)
(* /api/close_position with close_all, which looks the position up twice,  *)
(* while the ticker is opened and closed directly                          *)
(***************************************************************************)
CloseAll == \E p \in Procs, o \in SessionOrders : CloseAllBegin(p, o.ticker)

NextLookup ==
  \/ SessionOpen
  \/ ValidateOpen
  \/ InsertPosition
  \/ SessionClose
  \/ ValidateClose
  \/ CloseAll
  \/ FirstLookup
  \/ SecondLookup
  \/ UpdateClose

SpecLookup == Init /\ [][NextLookup]_vars

(***************************************************************************)
(* Every validate_* function at work on one ticker: the gate, which runs   *)
(* the risk pipeline and validate_buy_to_open, add_contracts,              *)
(* close_contracts and validate_order                                      *)
(***************************************************************************)
ReadOnlyOrders ==
  { Order("NVDA", 100, "CALL", 2, 1200),
    Order("NVDA", 100, "CALL", 10, 250) }

ReadOnlyActions == {"BUY_TO_OPEN", "SELL_TO_CLOSE"}

ReadOnlyOpen == \E p \in Procs, o \in ReadOnlyOrders : GateBegin(p, o, MaxRows)

ReadOnlyAdd == \E p \in Procs, n \in AddArgs : AddBegin(p, "NVDA", n)

ReadOnlyClose == \E p \in Procs, n \in CloseArgs : CloseBegin(p, "NVDA", n)

ReadOnlyOrder ==
  \E p \in Procs, a \in ReadOnlyActions : OrderBegin(p, a, Order("NVDA", 100, "CALL", 2, 0))

NextReadOnly ==
  \/ ReadOnlyOpen
  \/ RiskReadPositions
  \/ RiskReadExecutions
  \/ RiskReadExposure
  \/ ValidateOpen
  \/ InsertPosition
  \/ RecordExecution
  \/ ReadOnlyAdd
  \/ ValidateAdd
  \/ UpdateAdd
  \/ ReadOnlyClose
  \/ ValidateClose
  \/ UpdateClose
  \/ ReadOnlyOrder
  \/ ValidateOrder

SpecReadOnly == Init /\ [][NextReadOnly]_vars

(***************************************************************************)
(* Properties                                                              *)
(***************************************************************************)
Ids(rows) == {r.id : r \in rows}

Sessions == {r.session_id : r \in positions}

IsOpenRequest(p) == proc[p].op \in {"gate_open", "open"}

SameKey(p, q) ==
  /\ proc[p].order.ticker = proc[q].order.ticker
  /\ proc[p].sid = proc[q].sid

\* C1: the positions table never holds two rows with status OPEN for the
\* same (ticker, session_id).
C1_OneOpenPerTickerSession ==
  \A r1 \in positions : \A r2 \in positions :
    (/\ r1.status = "OPEN" /\ r2.status = "OPEN"
     /\ r1.ticker = r2.ticker /\ r1.session_id = r2.session_id) => r1 = r2

\* C1 witness: an insert was refused by the index while the key had an OPEN
\* row, next to an earlier, CLOSED row of the same key.
C1_Witness ==
  \E p \in Procs :
    /\ proc[p].pc = "done" /\ proc[p].ins = "conflict"
    /\ OpenRowsOf(positions, proc[p].order.ticker, proc[p].sid) # {}
    /\ \E r \in RowsOf(positions, proc[p].order.ticker, proc[p].sid) : r.status = "CLOSED"

\* C2: of two BUY_TO_OPEN requests through the gate for the same ticker and
\* session that both passed the existence check and both reached the insert,
\* with no position of that key closed in between, exactly one returns success
\* and the other a rejection, and the key has exactly one OPEN row.
C2_ExactlyOneWinner ==
  \A p \in Procs : \A q \in Procs \ {p} :
    (/\ proc[p].op = "gate_open" /\ proc[q].op = "gate_open"
     /\ proc[p].pc = "done" /\ proc[q].pc = "done"
     /\ proc[p].ins # "none" /\ proc[q].ins # "none"
     /\ SameKey(p, q)
     /\ \A r \in RowsOf(positions, proc[p].order.ticker, proc[p].sid) : r.status = "OPEN")
    => /\ proc[p].success # proc[q].success
       /\ Cardinality(OpenRowsOf(positions, proc[p].order.ticker, proc[p].sid)) = 1

\* C2 witness: both requests reached the insert; one returned success, the
\* other was rejected.
C2_Witness ==
  \E p \in Procs : \E q \in Procs \ {p} :
    /\ proc[p].op = "gate_open" /\ proc[q].op = "gate_open"
    /\ proc[p].pc = "done" /\ proc[q].pc = "done"
    /\ proc[p].ins = "ok" /\ proc[q].ins = "conflict"
    /\ SameKey(p, q)
    /\ proc[p].success /\ ~proc[q].success
    /\ \A r \in RowsOf(positions, proc[p].order.ticker, proc[p].sid) : r.status = "OPEN"

\* C3: in every session the exposure of the OPEN positions, the sum of
\* contracts x entry_price x 100, is at most max_portfolio_exposure.
C3_PortfolioExposureCapped ==
  \A s \in Sessions : OpenExposure(s) <= max_portfolio_exposure

\* C4: every OPEN position has contracts x entry_price x 100 at most
\* max_position_exposure.
C4_PositionExposureCapped ==
  \A r \in positions :
    r.status = "OPEN" => r.contracts * r.entry_price <= max_position_exposure

\* C5: every OPEN position holds between 0 and 5 contracts.
C5_OpenContractsInRange ==
  \A r \in positions :
    r.status = "OPEN" => r.contracts \in 0 .. ValidatorMaxContracts

\* C6: a position is CLOSED if and only if it holds 0 contracts.
C6_ClosedIffZero ==
  \A r \in positions : (r.status = "CLOSED") <=> (r.contracts = 0)

\* C7: concurrent close_contracts calls act as in some sequential order:
\* every close that reports success takes its contracts_to_close from an OPEN
\* position that holds at least that many at that step, and leaves it that
\* many fewer (never a negative count).
C7_ClosesLinearizable ==
  [][\A p \in Procs :
       (proc[p].pc = "write" /\ proc[p].op = "close" /\ proc'[p].pc = "done" /\ proc'[p].success)
       => LET hit == OpenRowsOf(positions, proc[p].order.ticker, proc[p].sid)
              n == proc[p].order.contracts
          IN  /\ hit # {}
              /\ \A r \in hit :
                   /\ n <= r.contracts
                   /\ \E r2 \in positions' : r2.id = r.id /\ r2.contracts = r.contracts - n
     ]_vars

\* C8: a session never holds more than max_new_positions OPEN positions.
C8_OpenCountCapped ==
  \A s \in Sessions : Cardinality(OpenIn(positions, s)) <= max_new_positions

\* C9: once the session-limits check of the risk engine has run, an order
\* whose session holds max_new_positions or more OPEN positions, or
\* max_total_executions or more executions, has been rejected with risk level
\* CRITICAL, whatever its ticker, strike, contracts and price.
C9_SessionLimitRejects ==
  \A p \in Procs :
    (/\ proc[p].op = "validate"
     /\ proc[p].pc \notin {"risk_pos", "risk_exec"}
     /\ \/ Cardinality(OpenIn(positions, proc[p].esid)) >= max_new_positions
        \/ Len(SelectSeq(session_executions,
                         LAMBDA e : e.session_id = proc[p].esid)) >= max_total_executions)
    => /\ proc[p].pc = "done"
       /\ ~proc[p].success
       /\ proc[p].risk_level = "CRITICAL"

\* C9 witness: an order that passes every other check is rejected with
\* CRITICAL in a session that holds max_new_positions OPEN positions.
C9_Witness ==
  \E p \in Procs :
    /\ proc[p].op = "validate" /\ proc[p].pc = "done"
    /\ proc[p].order = Order("TSLA", 340, "CALL", 5, 250)
    /\ Cardinality(OpenIn(positions, proc[p].esid)) = max_new_positions
    /\ Len(session_executions) = 0
    /\ ~proc[p].success
    /\ proc[p].risk_level = "CRITICAL"

\* C10: every row a successful open_position inserts has, when inserted,
\* contracts between 1 and 5 and entry_price > 0.
C10_InsertedRowsValid ==
  [][\A r \in positions' :
       r.id \notin Ids(positions)
       => r.contracts \in 1 .. ValidatorMaxContracts /\ r.entry_price > 0
    ]_vars

\* C11: within one session, for every k in 1..5 and a ticker with no open
\* position, open_position with k contracts followed by close_contracts with
\* k leaves the position CLOSED with 0 contracts, and followed by
\* close_contracts with k - 1 leaves it OPEN with 1 contract.
C11_RoundTrip ==
  [][\A p \in Procs :
       (proc[p].pc = "write" /\ proc[p].op = "close" /\ proc'[p].pc = "done")
       => LET hit == OpenRowsOf(positions, proc[p].order.ticker, proc[p].sid)
              n == proc[p].order.contracts
          IN  /\ proc'[p].success
              /\ hit # {}
              /\ \A r \in hit : \E r2 \in positions' :
                   /\ r2.id = r.id
                   /\ n = r.contracts => (r2.status = "CLOSED" /\ r2.contracts = 0)
                   /\ n = r.contracts - 1 => (r2.status = "OPEN" /\ r2.contracts = 1)
     ]_vars

\* C11 witness: one round trip ended with its position CLOSED at 0 contracts,
\* another with its position OPEN at 1 contract.
C11_Witness ==
  /\ \A p \in Procs : proc[p].op = "close" /\ proc[p].pc = "done" /\ proc[p].success
  /\ \E r \in positions : r.status = "CLOSED" /\ r.contracts = 0
  /\ \E r \in positions : r.status = "OPEN" /\ r.contracts = 1

\* C12: every accepted order appends exactly one entry to the session
\* execution log; a close_contracts call that reports success appends one
\* entry of type CLOSE when it leaves 0 contracts and PARTIAL_CLOSE otherwise.
C12_CloseAppendsExecution ==
  [][\A p \in Procs :
       (proc[p].pc = "write" /\ proc[p].op = "close" /\ proc'[p].pc = "done" /\ proc'[p].success)
       => /\ Len(session_executions') = Len(session_executions) + 1
          /\ session_executions'[Len(session_executions')].execution_type
               \in {"CLOSE", "PARTIAL_CLOSE"}
     ]_vars

\* C13: close_contracts(ticker, n) with n <= 0 is rejected when it is
\* validated, whether or not the ticker has an open position, and changes no
\* position.
C13_NonPositiveCloseRejected ==
  [][\A p \in Procs :
       (/\ proc[p].op = "close" /\ proc[p].pc = "val"
        /\ proc[p].order.contracts <= 0
        /\ proc'[p] # proc[p])
       => /\ proc'[p].pc = "done" /\ ~proc'[p].success
          /\ positions' = positions
     ]_vars

\* C14: a close_contracts call that finds no OPEN position for its ticker in
\* the session is rejected, and the positions table and the execution log are
\* the same before and after.
C14_CloseWithoutPositionRejected ==
  [][\A p \in Procs :
       (/\ proc[p].op = "close" /\ proc[p].pc = "val"
        /\ ~HasOpen(proc[p].order.ticker, proc[p].sid)
        /\ proc'[p] # proc[p])
       => /\ proc'[p].pc = "done" /\ ~proc'[p].success
          /\ proc'[p].reason = "No open position to close"
          /\ positions' = positions
          /\ session_executions' = session_executions
     ]_vars

\* C14 witness: a close was rejected for want of a position while the table
\* holds no OPEN row, a CLOSED row of an earlier position included.
C14_Witness ==
  \E p \in Procs :
    /\ proc[p].op = "close" /\ proc[p].pc = "done" /\ ~proc[p].success
    /\ proc[p].reason = "No open position to close"
    /\ positions # {}
    /\ \A r \in positions : r.status = "CLOSED"

\* C15: a close_contracts call for more contracts than the OPEN position of
\* its ticker holds when the call reads it is rejected and changes no position.
C15_CloseMoreThanHeldRejected ==
  [][\A p \in Procs :
       (/\ proc[p].op = "close" /\ proc[p].pc = "val"
        /\ HasOpen(proc[p].order.ticker, proc[p].sid)
        /\ proc[p].order.contracts
             > get_open_position(proc[p].order.ticker, proc[p].sid).contracts
        /\ proc'[p] # proc[p])
       => /\ proc'[p].pc = "done" /\ ~proc'[p].success
          /\ proc'[p].reason = "Cannot close - only fewer open"
          /\ positions' = positions
     ]_vars

\* C15 witness: a close for more than is held was rejected and the position
\* is still OPEN with a positive number of contracts.
C15_Witness ==
  \E p \in Procs :
    /\ proc[p].op = "close" /\ proc[p].pc = "done" /\ ~proc[p].success
    /\ proc[p].reason = "Cannot close - only fewer open"
    /\ \E r \in positions : r.status = "OPEN" /\ r.contracts \in 1 .. 4

\* C16: close_contracts(ticker, n) with 1 <= n <= the contracts held by the
\* ticker's OPEN position passes validation and reports success, whatever the
\* session's open-position count, execution count and exposure are.
C16_CloseIgnoresRiskLimits ==
  [][\A p \in Procs :
       /\ (/\ proc[p].op = "close" /\ proc[p].pc = "val"
           /\ HasOpen(proc[p].order.ticker, proc[p].sid)
           /\ proc[p].order.contracts
                \in 1 .. get_open_position(proc[p].order.ticker, proc[p].sid).contracts
           /\ proc'[p] # proc[p])
          => proc'[p].pc = "write"
       /\ (proc[p].op = "close" /\ proc[p].pc = "write" /\ proc'[p] # proc[p])
          => (proc'[p].pc = "done" /\ proc'[p].success)
     ]_vars

\* C16 witness: a close has succeeded in a session that holds
\* max_new_positions OPEN positions or more, max_total_executions executions
\* or more and an exposure above max_portfolio_exposure.
C16_Witness ==
  \E p \in Procs :
    /\ proc[p].op = "close" /\ proc[p].pc = "done" /\ proc[p].success
    /\ Cardinality(OpenIn(positions, SessionOf(now))) >= max_new_positions
    /\ Len(session_executions) >= max_total_executions
    /\ OpenExposure(SessionOf(now)) > max_portfolio_exposure
    /\ \E r \in positions : r.contracts < ValidatorMaxContracts

\* the six checks of the risk pipeline, in its order, for the order of
\* worker p on the ledger as it is
SixChecks(p) ==
  LET o == proc[p].order
      s == proc[p].esid
  IN  << _check_session_limits(CountOpenTickers(s), CountExecutions(s)),
         _check_position_exposure(o.contracts, o.entry_price),
         _check_portfolio_exposure(OpenExposure(s), o.contracts, o.entry_price),
         _check_strike_bounds(o.ticker, o.strike),
         _check_price_bounds(o.ticker, o.entry_price),
         _check_contract_limits(o.contracts) >>

\* the index of the first failing check, 0 when every check passes
FirstFailure(checks) ==
  LET failing == {i \in DOMAIN checks : ~checks[i].valid}
  IN  IF failing = {} THEN 0
      ELSE CHOOSE i \in failing : \A j \in failing : i <= j

\* C17: the risk pipeline runs session limits, position exposure, portfolio
\* exposure, strike bounds, price bounds, contract quantity in that order and
\* stops at the first failure: a rejected order carries the reason and risk
\* level of its earliest failing check, and the pipeline goes on to its later
\* reads only when the earlier checks passed.
C17_FirstFailureReported ==
  \A p \in Procs :
    proc[p].op = "validate" =>
      LET checks == SixChecks(p)
          i == FirstFailure(checks)
      IN  /\ (proc[p].pc = "done" /\ i # 0)
               => /\ ~proc[p].success
                  /\ proc[p].reason = checks[i].reason
                  /\ proc[p].risk_level = checks[i].risk_level
          /\ proc[p].pc = "risk_expo" => (i = 0 \/ i > 2)
          /\ proc[p].pc = "val" => i = 0

\* C17 witness: TSLA strike 500 with a price and a quantity that are invalid
\* too has been rejected with HIGH by the strike check.
C17_Witness ==
  \E p \in Procs :
    /\ proc[p].op = "validate" /\ proc[p].pc = "done"
    /\ proc[p].order = Order("TSLA", 500, "CALL", 10, 50)
    /\ ~_check_price_bounds("TSLA", 50).valid
    /\ ~_check_contract_limits(10).valid
    /\ ~proc[p].success
    /\ proc[p].reason = "Strike outside bounds"
    /\ proc[p].risk_level = "HIGH"

\* C18: an order the risk pipeline accepts has risk level LOW and its
\* warnings hold the warnings of every one of the six checks, those of the
\* session-limits check included.
C18_WarningsOfEveryCheck ==
  \A p \in Procs :
    (proc[p].op = "validate" /\ proc[p].pc = "done" /\ proc[p].success)
    => /\ proc[p].risk_level = "LOW"
       /\ \A i \in 1 .. 6 : \A k \in DOMAIN SixChecks(p)[i].warnings :
            \E j \in DOMAIN proc[p].warnings :
              proc[p].warnings[j] = SixChecks(p)[i].warnings[k]

\* C19: once the position-exposure check has run on an order that passed the
\* session limits, the order is rejected with CRITICAL as too large exactly
\* when contracts x entry_price x 100 > max_position_exposure; on an empty
\* session TSLA 340 CALL 5 @ 2.50 is accepted with LOW.
C19_PositionExposureStrict ==
  \A p \in Procs :
    (/\ proc[p].op = "validate"
     /\ proc[p].pc \notin {"risk_pos", "risk_exec"}
     /\ SixChecks(p)[1].valid)
    => LET o == proc[p].order
       IN  /\ o.contracts * o.entry_price > max_position_exposure
                => /\ proc[p].pc = "done" /\ ~proc[p].success
                   /\ proc[p].reason = "Position too large"
                   /\ proc[p].risk_level = "CRITICAL"
           /\ o.contracts * o.entry_price <= max_position_exposure
                => proc[p].reason # "Position too large"
           /\ (/\ proc[p].pc = "done" /\ positions = {} /\ session_executions = <<>>
               /\ o = Order("TSLA", 340, "CALL", 5, 250))
                => proc[p].success /\ proc[p].risk_level = "LOW"

\* C19 witness: an order worth exactly max_position_exposure was accepted and
\* TSLA 340 CALL 5 @ 25.00 was rejected with CRITICAL, on an empty session.
C19_Witness ==
  /\ positions = {} /\ session_executions = <<>>
  /\ \E p \in Procs :
       /\ proc[p].op = "validate" /\ proc[p].pc = "done"
       /\ proc[p].order.contracts * proc[p].order.entry_price = max_position_exposure
       /\ proc[p].success /\ proc[p].risk_level = "LOW"
  /\ \E p \in Procs :
       /\ proc[p].op = "validate" /\ proc[p].pc = "done"
       /\ proc[p].order = Order("TSLA", 340, "CALL", 5, 2500)
       /\ ~proc[p].success /\ proc[p].risk_level = "CRITICAL"

\* C20: open_position of the position validator accepts CALL and PUT in any
\* letter case, rejects every other option_type, and every stored position
\* carries the upper-case value.
C20_OptionTypeAnyCase ==
  /\ \A p \in Procs :
       (proc[p].op = "open" /\ proc[p].pc = "done")
       => /\ upper(proc[p].order.option_type) \in {"CALL", "PUT"}
               => proc[p].reason # "Invalid option type"
          /\ upper(proc[p].order.option_type) \notin {"CALL", "PUT"}
               => ~proc[p].success
  /\ \A r \in positions : r.option_type \in {"CALL", "PUT"}

\* C21: validate_order rejects every order whose action is BUY_TO_CLOSE or
\* SELL_TO_OPEN, in any letter case and with surrounding whitespace, and
\* every unknown action, whatever the ledger and the other arguments are, and
\* changes neither the positions nor the execution log.
C21_ForbiddenActionsRejected ==
  [][\A p \in Procs :
       (/\ proc[p].op = "order" /\ proc[p].pc = "val"
        /\ proc[p].order_action
             \in {"BUY_TO_CLOSE", " buy_to_close ", "Sell_To_Open", "hold", ""}
        /\ proc'[p] # proc[p])
       => /\ proc'[p].pc = "done" /\ ~proc'[p].success
          /\ positions' = positions
          /\ session_executions' = session_executions
     ]_vars

\* C21 witness: " buy_to_close " for 5 contracts has been rejected while the
\* ticker holds an OPEN position of 5 contracts.
C21_Witness ==
  \E p \in Procs :
    /\ proc[p].op = "order" /\ proc[p].pc = "done" /\ ~proc[p].success
    /\ proc[p].reason = "BUY_TO_CLOSE not allowed"
    /\ \E r \in positions : r.status = "OPEN" /\ r.contracts = 5

\* C22: when the risk pipeline rejects a BUY_TO_OPEN, the gate returns that
\* rejection, with the pipeline's reason and risk level, and neither inserts
\* or changes a position nor appends an execution.
C22_RiskRejectionNoMutation ==
  [][\A p \in Procs :
       (/\ proc[p].op = "gate_open"
        /\ proc[p].pc \in {"risk_exec", "risk_expo"}
        /\ proc'[p] # proc[p])
       => LET o == proc[p].order
              verdict ==
                IF proc[p].pc = "risk_exec"
                  THEN RiskFirstPart(proc[p].current_positions, CountExecutions(proc[p].esid),
                                     o.contracts, o.entry_price)
                  ELSE RiskSecondPart(proc[p].warnings, OpenExposure(proc[p].esid),
                                      o.ticker, o.strike, o.contracts, o.entry_price)
          IN  ~verdict.valid
                => /\ proc'[p].pc = "done" /\ ~proc'[p].success
                   /\ proc'[p].reason = verdict.reason
                   /\ proc'[p].risk_level = verdict.risk_level
                   /\ proc'[p].ins = "none"
                   /\ positions' = positions
                   /\ session_executions' = session_executions
     ]_vars

\* C22 witness: the gate has returned a CRITICAL rejection of the pipeline
\* without an insert, next to a position opened earlier and its execution.
C22_Witness ==
  \E p \in Procs :
    /\ proc[p].op = "gate_open" /\ proc[p].pc = "done" /\ ~proc[p].success
    /\ proc[p].risk_level = "CRITICAL" /\ proc[p].ins = "none"
    /\ Cardinality(positions) = 1 /\ Len(session_executions) = 1

\* C23: an open_position whose insert was refused by the uniqueness
\* constraint returns a failure whose message says there already is an open
\* position for the ticker, not a generic database error.
C23_ConflictNamesOpenPosition ==
  \A p \in Procs :
    (proc[p].op \in {"gate_open", "open"} /\ proc[p].pc = "done" /\ proc[p].ins = "conflict")
    => /\ ~proc[p].success
       /\ proc[p].reason = "Already have open position this session"

\* C30: an OPEN execution entry is appended only after its position insert
\* succeeded: every entry is an OPEN entry with a position row of its ticker
\* in the table, a request is about to append only after its own insert went
\* through, and the log holds one entry per inserted row, none for a request
\* that was rejected.
C30_ExecutionAfterInsert ==
  /\ \A i \in DOMAIN session_executions :
       /\ session_executions[i].execution_type = "OPEN"
       /\ \E r \in positions : r.ticker = session_executions[i].ticker
  /\ \A p \in Procs : proc[p].pc = "rec" => proc[p].ins = "ok"
  /\ Len(session_executions) + Cardinality({p \in Procs : proc[p].pc = "rec"})
       = Cardinality(positions)

\* C30 witness: one request lost the insert to the index, one position was
\* inserted and its execution entry is in the log.
C30_Witness ==
  /\ \E p \in Procs :
       proc[p].op = "gate_open" /\ proc[p].pc = "done" /\ proc[p].ins = "conflict"
  /\ Len(session_executions) = 1
  /\ Cardinality(positions) = 1

\* C24: there is no re-entry within a session: a session holds at most one
\* position row, OPEN or CLOSED, per ticker.
C24_NoReentry ==
  \A r1 \in positions : \A r2 \in positions :
    (r1.ticker = r2.ticker /\ r1.session_id = r2.session_id) => r1 = r2

\* input the pipeline and the validator call invalid: non-positive contracts
\* or an option_type other than CALL and PUT
InvalidInput(o) == o.contracts <= 0 \/ o.option_type \notin {"CALL", "PUT"}

\* C25: an order with invalid input is rejected before any ledger access:
\* the request makes no read of the positions table or the execution log,
\* and its rejection is the one for the invalid input.
C25_InvalidInputBeforeLedger ==
  \A p \in Procs :
    (proc[p].op = "validate" /\ InvalidInput(proc[p].order))
    => /\ proc[p].pc \in {"risk_pos", "done"}
       /\ proc[p].current_positions = -1
       /\ proc[p].pc = "done"
            => /\ ~proc[p].success
               /\ proc[p].reason \in {"Invalid contract quantity",
                                       "Must open at least 1 contract",
                                       "Invalid option type"}

\* C26: the session key is the same all day, so a close_contracts call finds
\* the OPEN position that was opened for its ticker earlier the same day.
C26_SessionKeyStable ==
  [][\A p \in Procs :
       (/\ proc[p].op = "close" /\ proc[p].pc = "val"
        /\ \E r \in positions :
              /\ r.status = "OPEN" /\ r.ticker = proc[p].order.ticker
              /\ DayOf(r.session_id) = DayOf(proc[p].sid)
        /\ proc'[p] # proc[p])
       => proc'[p].reason # "No open position to close"
     ]_vars

\* C27: every order submitted to the gate, BUY_TO_OPEN or SELL_TO_CLOSE,
\* eventually returns an accepted or rejected result, whatever the other
\* worker does meanwhile.
C27_EveryOrderReturns ==
  \A p \in Procs :
    (proc[p].pc # "done") ~> (proc[p].pc = "done" /\ proc[p].reason # "")

\* C27 witness: two closes of the same ticker are both past their validation
\* and before their UPDATE.
C27_Witness ==
  /\ \A p \in Procs : proc[p].op = "close" /\ proc[p].pc = "write"
  /\ \A p \in Procs : \A q \in Procs : proc[p].order.ticker = proc[q].order.ticker

\* strike range and price range (in cents) of the listed tickers used here
ListedRanges ==
  [ TSLA |-> [strike |-> <<200, 400>>, price |-> <<100, 800>>],
    HOOD |-> [strike |-> <<8, 25>>, price |-> <<20, 350>>] ]

\* C28: the bounds lookup always succeeds: an order for a ticker absent from
\* the per-ticker table is checked against the global bounds (strike 10..600,
\* price 0.05..15.00) and accepted when it lies within them, and an order for
\* a listed ticker is checked against the ticker's own ranges.
C28_BoundsFallback ==
  \A p \in Procs :
    (proc[p].op = "validate" /\ proc[p].pc = "done")
    => LET o == proc[p].order
           listed == o.ticker \in DOMAIN ListedRanges
           strikes == IF listed THEN ListedRanges[o.ticker].strike ELSE <<10, 600>>
           prices == IF listed THEN ListedRanges[o.ticker].price ELSE <<5, 1500>>
           strike_ok == strikes[1] <= o.strike /\ o.strike <= strikes[2]
           price_ok == prices[1] <= o.entry_price /\ o.entry_price <= prices[2]
       IN  /\ ~strike_ok => (~proc[p].success /\ proc[p].reason = "Strike outside bounds")
           /\ (strike_ok /\ ~price_ok)
                => (~proc[p].success /\ proc[p].reason = "Price outside typical range")
           /\ (strike_ok /\ price_ok) => proc[p].success

\* C28 witness: an order for an unlisted ticker at the edge of the global
\* bounds was accepted, and TSLA strike 500, inside the global range and
\* outside TSLA's own, was rejected.
C28_Witness ==
  /\ \E p \in Procs :
       /\ proc[p].op = "validate" /\ proc[p].pc = "done" /\ proc[p].success
       /\ proc[p].order = Order("UNKNOWN", 600, "CALL", 1, 500)
  /\ \E p \in Procs :
       /\ proc[p].op = "validate" /\ proc[p].pc = "done" /\ ~proc[p].success
       /\ proc[p].order = Order("TSLA", 500, "CALL", 1, 250)
       /\ proc[p].reason = "Strike outside bounds"

\* C29: get_open_position is idempotent and read-only: a lookup changes
\* neither the positions nor the execution log, and the second of two
\* lookups with no change of the table in between returns the row the first
\* returned.
C29_LookupIdempotent ==
  [][\A p \in Procs :
       (proc[p].op = "close_all" /\ proc'[p] # proc[p])
       => /\ positions' = positions
          /\ session_executions' = session_executions
          /\ (proc[p].pc = "look2" /\ positions = proc[p].table)
               => /\ proc'[p].pc = "write"
                  /\ \A r \in proc[p].seen :
                       /\ proc'[p].target = r.id
                       /\ proc'[p].current_contracts = r.contracts
     ]_vars

\* C29 witness: a second lookup has returned the row of the first one, a
\* position that a partial close had left with fewer than 5 contracts, while
\* the table holds a CLOSED row of the ticker as well.
C29_Witness ==
  \E p \in Procs :
    /\ proc[p].op = "close" /\ proc[p].pc = "write"
    /\ \E r \in proc[p].seen :
         /\ r \in positions
         /\ r.id = proc[p].target
         /\ r.contracts < ValidatorMaxContracts
    /\ \E r \in positions : r.status = "CLOSED"

\* the steps of a request in which a risk check or a validate_* function runs
Validating == {"risk_pos", "risk_exec", "risk_expo", "val"}

\* C31: the risk pipeline and the validate_* functions are read-only: a step
\* of a request that is evaluating the risk checks, validate_buy_to_open,
\* validate_add_contracts, validate_sell_to_close or validate_order leaves
\* every position row and the execution log as they were, whether the
\* request goes on or is rejected there
C31_ValidationReadOnly ==
  [][\A p \in Procs :
       (proc[p].pc \in Validating /\ proc'[p] # proc[p])
         => (positions' = positions /\ session_executions' = session_executions)]_vars

\* validations have accepted and rejected requests on a ledger that holds a
\* position and an execution: a validate_order call was allowed, and an
\* add_contracts call and a gate request were rejected
C31_Witness ==
  /\ positions # {}
  /\ session_executions # <<>>
  /\ \E p \in Procs : proc[p].op = "order" /\ proc[p].pc = "done" /\ proc[p].success
  /\ \E q \in Procs : proc[q].op \in {"add", "gate_open"} /\ proc[q].pc = "done"
                        /\ ~proc[q].success /\ proc[q].reason # ""

\* the columns of a row that no statement of the code assigns after the INSERT
Created(r) == <<r.id, r.ticker, r.strike, r.option_type, r.entry_price, r.session_id>>

\* C32: id, ticker, strike, option_type, entry_price and session_id of a row
\* never change once the row exists, and the UPDATE of add_contracts or
\* close_contracts changes contracts and status of at most one row, an OPEN
\* row of the call's ticker and session, leaving every other row as it was
C32_OnlyContractsAndStatusChange ==
  [][/\ \A r \in positions : \E n \in positions' : Created(n) = Created(r)
     /\ \A p \in Procs :
          (proc[p].pc = "write" /\ proc[p].op \in {"add", "close"} /\ proc'[p] # proc[p])
            => /\ Ids(positions') = Ids(positions)
               /\ Cardinality(positions \ positions') <= 1
               /\ \A r \in positions \ positions' :
                    /\ r.status = "OPEN"
                    /\ r.ticker = proc[p].order.ticker
                    /\ r.session_id = proc[p].sid]_vars

\* an add_contracts and a close_contracts call have succeeded on a ledger
\* with two rows of one ticker and session, one CLOSED and one OPEN whose
\* contracts are no longer those of any order
C32_Witness ==
  /\ \E p \in Procs : proc[p].op = "add" /\ proc[p].pc = "done" /\ proc[p].success
  /\ \E q \in Procs : proc[q].op = "close" /\ proc[q].pc = "done" /\ proc[q].success
  /\ \E r, c \in positions :
       /\ r.status = "OPEN" /\ c.status = "CLOSED"
       /\ r.ticker = c.ticker /\ r.session_id = c.session_id
       /\ r.contracts \notin {o.contracts : o \in LedgerOrders}

\* C34: the execution log is append-only: every step keeps each entry of
\* session_executions at its place and unchanged, so the number of entries
\* of a session never decreases
C34_ExecutionLogAppendOnly ==
  [][/\ Len(session_executions') >= Len(session_executions)
     /\ \A i \in DOMAIN session_executions : session_executions'[i] = session_executions[i]
     /\ \A sid \in {session_executions[i].session_id : i \in DOMAIN session_executions} :
          CountExecutions(sid)' >= CountExecutions(sid)]_vars

\* two executions of different tickers are in the log, and a position has
\* been closed
C34_Witness ==
  /\ Len(session_executions) >= 2
  /\ session_executions[1].ticker # session_executions[2].ticker
  /\ \E r \in positions : r.status = "CLOSED"

\* C33: position rows are never deleted: every step keeps every id of the
\* table, and a row that is CLOSED is still in the table with status CLOSED
\* after the step
C33_RowsNeverDeleted ==
  [][/\ Ids(positions) \subseteq Ids(positions')
     /\ \A r \in positions :
          r.status = "CLOSED"
            => \E n \in positions' : n.id = r.id /\ n.status = "CLOSED"]_vars

\* a position was closed in full, a minute passed, and a position was opened
\* for the same ticker in the next session: both rows are in the table
C33_Witness ==
  \E c, r \in positions :
    /\ c.status = "CLOSED" /\ c.contracts = 0
    /\ r.status = "OPEN"
    /\ r.ticker = c.ticker /\ r.session_id > c.session_id

\* C35: CLOSED is a terminal status: no step of open_position, add_contracts
\* or close_contracts changes the status or the contracts of a row that is
\* CLOSED
C35_ClosedIsTerminal ==
  [][\A r \in positions :
       r.status = "CLOSED"
         => \E n \in positions' :
              n.id = r.id /\ n.status = r.status /\ n.contracts = r.contracts]_vars

\* with a CLOSED row in the table, a position was opened again for its
\* ticker and session, and an add_contracts call has succeeded
C35_Witness ==
  /\ \E c, r \in positions :
       /\ c.status = "CLOSED" /\ r.status = "OPEN"
       /\ r.ticker = c.ticker /\ r.session_id = c.session_id
  /\ \E p \in Procs : proc[p].op = "add" /\ proc[p].pc = "done" /\ proc[p].success

\* C36: one risk evaluation reads its aggregates from a single state of the
\* ledger: when the portfolio check reads the open exposure, the count of
\* open positions the session-limits check read earlier in the same run is
\* the count of the ledger the exposure is read from
C36_RiskReadsOneSnapshot ==
  [][\A p \in Procs :
       (proc[p].pc = "risk_expo" /\ proc'[p] # proc[p])
         => proc[p].current_positions = CountOpenTickers(proc[p].esid)]_vars

====
